---- MODULE Spec2Model ----
(***************************************************************************)
(* Model of the "users" resource of the Express server: the module-level   *)
(* users array of users.ts, its three handlers (getAllUsers, createUser,   *)
(* getUserById) and the route registration that dispatches to them.        *)
(*                                                                         *)
(* Requests arrive (body parsing is asynchronous, so several can be in     *)
(* flight at once) and each handler then runs to completion as one step of *)
(* the single-threaded event loop.  Every completed exchange is appended   *)
(* to log, which is the history the properties are stated over.            *)
(***************************************************************************)
EXTENDS Integers, Sequences, FiniteSets, TLC

VARIABLES users, inflight, nextRid, log

(* The DataStore<User> instance of Generics.ts and its caller: items is the *)
(* array object the private field refers to, callerRef what the caller's    *)
(* variable for the result of getAllItems refers to, lastOp the operation   *)
(* just performed with its argument and result.                             *)
VARIABLES items, callerRef, lastOp

(* The Dog class of the static-members study file: instanceCount is the   *)
(* static counter, dogs the names of the instances constructed so far,   *)
(* dogOp the operation just performed.                                   *)
VARIABLES instanceCount, dogs, dogOp

userVars == <<users, inflight, nextRid, log>>

dogVars == <<instanceCount, dogs, dogOp>>

storeVars == <<items, callerRef, lastOp>>

vars == <<users, inflight, nextRid, log, items, callerRef, lastOp, instanceCount, dogs, dogOp>>

(* Number of requests issued in one behaviour. *)
MaxRequests == 3

(* Number of requests in flight at the same time. *)
MaxInflight == 2

(* Number of items the DataStore array grows to. *)
MaxItems == 3

(* Number of Dog instances constructed in one behaviour. *)
MaxDogs == 4

(***************************************************************************)
(* Data                                                                    *)
(***************************************************************************)

(* users.ts: const users = [ ... ] *)
SeedUsers ==
    << [id |-> 1, name |-> "Alice",   email |-> "alice@example.com",   age |-> 28],
       [id |-> 2, name |-> "Bob",     email |-> "bob@example.com",     age |-> 34],
       [id |-> 3, name |-> "Charlie", email |-> "charlie@example.com", age |-> 25] >>

(* interface UserData: the keys of a well-formed entity. *)
UserDataKeys == {"id", "name", "email", "age"}

(* interface CreateUserInput: the keys of a well-formed create body. *)
CreateUserInputKeys == {"name", "email", "age"}

(* JSON bodies a client can POST.  express.json() hands the handler whatever *)
(* object was sent: the CreateUserInput type is erased at run time, so a     *)
(* body may carry an id key or keys outside the interface.                   *)
Dave       == [name |-> "Dave", email |-> "dave@x.com", age |-> 22]
Eve        == [name |-> "Eve",  email |-> "eve@x.com",  age |-> 30]
DaveWithId == [id |-> 7, name |-> "Dave", email |-> "dave@x.com", age |-> 22]
EveWithRole == [name |-> "Eve", email |-> "eve@x.com", age |-> 30, role |-> "admin"]

Bodies == {Dave, Eve, DaveWithId, EveWithRole}

(* The body of a request that carries none. *)
EmptyBody == [k \in {} |-> 0]

(* Values of the :id path segment, as sequences of characters. *)
IdParams ==
    { <<"2">>, <<"4">>, <<"7">>, <<"9", "9", "9">>, <<"a", "b", "c">>, <<"2", "x">> }

(***************************************************************************)
(* Pure functions                                                          *)
(***************************************************************************)

DigitValue ==
    ("0" :> 0) @@ ("1" :> 1) @@ ("2" :> 2) @@ ("3" :> 3) @@ ("4" :> 4) @@
    ("5" :> 5) @@ ("6" :> 6) @@ ("7" :> 7) @@ ("8" :> 8) @@ ("9" :> 9)

IsDigit(c) == c \in DOMAIN DigitValue

WhiteSpace == {" "}

RECURSIVE SkipWhiteSpace(_)
SkipWhiteSpace(s) ==
    IF s # <<>> /\ Head(s) \in WhiteSpace THEN SkipWhiteSpace(Tail(s)) ELSE s

(* Value of the longest prefix of digits of s, acc being the value so far. *)
RECURSIVE DigitsValue(_, _)
DigitsValue(s, acc) ==
    IF s # <<>> /\ IsDigit(Head(s))
    THEN DigitsValue(Tail(s), 10 * acc + DigitValue[Head(s)])
    ELSE acc

(* parseInt(string, 10): leading white space is skipped, one sign is       *)
(* accepted, the longest prefix of decimal digits is the value and what    *)
(* follows is ignored; without a digit the result is NaN.                  *)
parseInt(str) ==
    LET s      == SkipWhiteSpace(str)
        signed == s # <<>> /\ Head(s) \in {"+", "-"}
        digits == IF signed THEN Tail(s) ELSE s
        sign   == IF signed /\ Head(s) = "-" THEN -1 ELSE 1
    IN  IF digits # <<>> /\ IsDigit(Head(digits))
        THEN [isNaN |-> FALSE, val |-> sign * DigitsValue(digits, 0)]
        ELSE [isNaN |-> TRUE,  val |-> 0]

(* A classic slip: u.id = userId in the predicate, whose value is the      *)
(* truthiness of userId.                                                   *)
StrictEquals_assignment(n, parsed) == ~parsed.isNaN /\ parsed.val # 0

(* A slip: equality written as "neither less nor greater", which NaN *)
(* satisfies against every number.                                   *)
StrictEquals_notLessNotGreater(n, parsed) == parsed.isNaN \/ n = parsed.val

(* n === parsed for a number n and a parseInt result: NaN equals nothing. *)
StrictEquals(n, parsed) == ~parsed.isNaN /\ n = parsed.val

(* A slip: the id used as an array index, users[userId]. *)
find_byIndex(us, userId) ==
    IF ~userId.isNaN /\ (userId.val + 1) \in DOMAIN us
    THEN [found |-> TRUE, user |-> us[userId.val + 1]]
    ELSE [found |-> FALSE]

(* Array.prototype.find with the predicate u => u.id === userId: the first *)
(* matching element, or undefined.                                         *)
find(us, userId) ==
    LET matches == {i \in DOMAIN us : StrictEquals(us[i].id, userId)}
    IN  IF matches = {}
        THEN [found |-> FALSE]
        ELSE [found |-> TRUE,
              user  |-> us[CHOOSE i \in matches : \A j \in matches : i <= j]]

(* { ...base, ...src } evaluated left to right: a key of src overrides the *)
(* same key of base.                                                       *)
ObjectSpread(base, src) ==
    [k \in (DOMAIN base) \cup (DOMAIN src) |->
        IF k \in DOMAIN src THEN src[k] ELSE base[k]]

(***************************************************************************)
(* Handlers: the response each one sends                                   *)
(***************************************************************************)

(* The Response object a handler is given: nothing sent yet, status code  *)
(* 200 until the handler sets one.                                        *)
NewResponse == [status |-> 200, body |-> <<>>, sends |-> 0]

(* res.status(code): sets the status code and returns res. *)
res_status(res, code) == [res EXCEPT !.status = code]

(* res.json(body): sends the response.  What the client receives is the   *)
(* first send; a further send cannot replace it and is only counted.      *)
res_json(res, body) ==
    IF res.sends = 0
    THEN [res EXCEPT !.body = body, !.sends = 1]
    ELSE [res EXCEPT !.sends = res.sends + 1]

(* A slip: a listing that skips the first element, users.slice(1). *)
getAllUsers_slice(req, us) == res_json(res_status(NewResponse, 200), Tail(us))

(* res.status(200).json(users) *)
getAllUsers(req, us) == res_json(res_status(NewResponse, 200), us)

(* A slip: the id taken as users.length, without the + 1. *)
newUser_lengthOnly(req, us) == ObjectSpread([id |-> Len(us)], req.body)

(* newUser = { id: users.length + 1, ...req.body } *)
newUser(req, us) == ObjectSpread([id |-> Len(us) + 1], req.body)

(* res.status(201).json({ message, user: newUser }) *)
createUser(req, us) ==
    res_json(res_status(NewResponse, 201),
             [message |-> "User created successfully", user |-> newUser(req, us)])

(* The push enabled as written: the record built from the body is stored. *)
usersAfterCreate_push(req, us) == Append(us, newUser(req, us))

(* A slip: the new record written over the last slot, users[users.length - 1]. *)
usersAfterCreate_overwrite(req, us) == [us EXCEPT ![Len(us)] = newUser(req, us)]

(* The users array after createUser: the push is commented out. *)
usersAfterCreate(req, us) == us

(* A slip: the else dropped, so the 404 is sent after the 200 as well. *)
getUserById_noElse(req, us) ==
    LET userId == parseInt(req.params.id)
        user   == find(us, userId)
        sent   == IF user.found
                  THEN res_json(res_status(NewResponse, 200), user.user)
                  ELSE NewResponse
    IN  res_json(res_status(sent, 404), [message |-> "User not found"])

getUserById(req, us) ==
    LET userId == parseInt(req.params.id)
        user   == find(us, userId)
    IN  IF user.found
        THEN res_json(res_status(NewResponse, 200), user.user)
        ELSE res_json(res_status(NewResponse, 404), [message |-> "User not found"])

(***************************************************************************)
(* Dispatch                                                                *)
(***************************************************************************)

(* A slip: routes registered without regard to the method (app.use / app.all). *)
Route_anyMethod(method, path) ==
    IF Len(path) >= 2 /\ path[1] = "api" /\ path[2] = "users"
    THEN IF Len(path) = 2 THEN "getAllUsers"
         ELSE IF Len(path) = 3 THEN "getUserById"
         ELSE "none"
    ELSE "none"

(* app.get('/api/users', ...), app.get('/api/users/:id', ...),             *)
(* app.post('/api/users', ...): the first registered route that matches.   *)
Route(method, path) ==
    IF Len(path) >= 2 /\ path[1] = "api" /\ path[2] = "users"
    THEN IF method = "GET" /\ Len(path) = 2 THEN "getAllUsers"
         ELSE IF method = "GET" /\ Len(path) = 3 THEN "getUserById"
         ELSE IF method = "POST" /\ Len(path) = 2 THEN "createUser"
         ELSE "none"
    ELSE "none"

(* The parsed request object a handler receives. *)
Request(method, path, body) ==
    [method |-> method,
     path   |-> path,
     params |-> IF Len(path) = 3 THEN [id |-> path[3]] ELSE [id |-> <<>>],
     body   |-> body]

Requests ==
    {Request("GET", <<"api", "users">>, EmptyBody)}
    \cup {Request("GET", <<"api", "users", p>>, EmptyBody) : p \in IdParams}
    \cup {Request("POST", <<"api", "users">>, b) : b \in Bodies}

(***************************************************************************)
(* State machine                                                           *)
(***************************************************************************)

Init ==
    /\ users = SeedUsers
    /\ inflight = [r \in {} |-> 0]
    /\ nextRid = 1
    /\ log = <<>>
    /\ items = <<>>
    /\ callerRef = "none"
    /\ lastOp = [op |-> "constructor"]
    /\ instanceCount = 0
    /\ dogs = <<>>
    /\ dogOp = "none"

(* A request reaches the server and waits for its handler to be run. *)
ReceiveRequest ==
    /\ nextRid <= MaxRequests
    /\ Cardinality(DOMAIN inflight) < MaxInflight
    /\ \E req \in Requests :
          inflight' = (nextRid :> req) @@ inflight
    /\ nextRid' = nextRid + 1
    /\ UNCHANGED <<users, log>>
    /\ UNCHANGED storeVars
    /\ UNCHANGED dogVars

Remove(f, x) == [y \in (DOMAIN f) \ {x} |-> f[y]]

(* The record of one completed exchange.  overlap is the set of requests   *)
(* that were in flight while this one was handled.                         *)
Exchange(rid, handler, res) ==
    [rid     |-> rid,
     handler |-> handler,
     req     |-> inflight[rid],
     status  |-> res.status,
     body    |-> res.body,
     sends   |-> res.sends,
     overlap |-> (DOMAIN inflight) \ {rid}]

(* A slip: the listing reversed in place before it is sent, users.reverse(). *)
GetAllUsers_reverse ==
    \E rid \in DOMAIN inflight :
        /\ Route(inflight[rid].method, inflight[rid].path) = "getAllUsers"
        /\ log' = Append(log, Exchange(rid, "getAllUsers", getAllUsers(inflight[rid], users)))
        /\ users' = [k \in DOMAIN users |-> users[Len(users) + 1 - k]]
        /\ inflight' = Remove(inflight, rid)
        /\ UNCHANGED nextRid
        /\ UNCHANGED storeVars
        /\ UNCHANGED dogVars

GetAllUsers ==
    \E rid \in DOMAIN inflight :
        /\ Route(inflight[rid].method, inflight[rid].path) = "getAllUsers"
        /\ log' = Append(log, Exchange(rid, "getAllUsers", getAllUsers(inflight[rid], users)))
        /\ inflight' = Remove(inflight, rid)
        /\ UNCHANGED <<users, nextRid>>
        /\ UNCHANGED storeVars
        /\ UNCHANGED dogVars

CreateUser ==
    \E rid \in DOMAIN inflight :
        /\ Route(inflight[rid].method, inflight[rid].path) = "createUser"
        /\ log' = Append(log, Exchange(rid, "createUser", createUser(inflight[rid], users)))
        /\ users' = usersAfterCreate(inflight[rid], users)
        /\ inflight' = Remove(inflight, rid)
        /\ UNCHANGED nextRid
        /\ UNCHANGED storeVars
        /\ UNCHANGED dogVars

(* A slip: the user taken out of the array with splice instead of found. *)
GetUserById_splice ==
    \E rid \in DOMAIN inflight :
        /\ Route(inflight[rid].method, inflight[rid].path) = "getUserById"
        /\ log' = Append(log, Exchange(rid, "getUserById", getUserById(inflight[rid], users)))
        /\ users' = SelectSeq(users,
                        LAMBDA u : ~StrictEquals(u.id, parseInt(inflight[rid].params.id)))
        /\ inflight' = Remove(inflight, rid)
        /\ UNCHANGED nextRid
        /\ UNCHANGED storeVars
        /\ UNCHANGED dogVars

GetUserById ==
    \E rid \in DOMAIN inflight :
        /\ Route(inflight[rid].method, inflight[rid].path) = "getUserById"
        /\ log' = Append(log, Exchange(rid, "getUserById", getUserById(inflight[rid], users)))
        /\ inflight' = Remove(inflight, rid)
        /\ UNCHANGED <<users, nextRid>>
        /\ UNCHANGED storeVars
        /\ UNCHANGED dogVars

Next == ReceiveRequest \/ GetAllUsers \/ CreateUser \/ GetUserById

Spec == Init /\ [][Next]_vars

(***************************************************************************)
(* DataStore<T> (Generics.ts)                                              *)
(***************************************************************************)

(* The items a caller adds: data.addItem({ id: 1, name: "Alice" }), ... *)
StoreItems ==
    { [id |-> 1, name |-> "Alice"], [id |-> 2, name |-> "Bob"], [id |-> 3, name |-> "Carol"] }

(* The index arguments a caller passes, valid and invalid. *)
Indexes == (-1)..(MaxItems + 1)

Min(a, b) == IF a <= b THEN a ELSE b
Max(a, b) == IF a >= b THEN a ELSE b

(* Array.prototype.splice(start, deleteCount) on an array with 0-based   *)
(* indices: the array without the deleteCount elements from start on.    *)
splice(its, start, deleteCount) ==
    LET len   == Len(its)
        from  == IF start < 0 THEN Max(len + start, 0) ELSE Min(start, len)
        count == Min(Max(deleteCount, 0), len - from)
    IN  SubSeq(its, 1, from) \o SubSeq(its, from + count + 1, len)

(* A slip: unshift for push, the new item put first. *)
addItem_unshift(its, item) == <<item>> \o its

(* this.items.push(item) *)
addItem(its, item) == Append(its, item)

(* A slip: the index taken as 1-based, this.items[index - 1]. *)
getItem_oneBased(its, index) ==
    IF index \in DOMAIN its
    THEN [defined |-> TRUE, item |-> its[index]]
    ELSE [defined |-> FALSE]

(* return this.items[index]: the element, or undefined outside the array. *)
getItem(its, index) ==
    IF (index + 1) \in DOMAIN its
    THEN [defined |-> TRUE, item |-> its[index + 1]]
    ELSE [defined |-> FALSE]

(* A slip: the bounds test dropped, splice(index, 1) on any index; a      *)
(* negative index then counts from the end.                              *)
removeItem_noGuard(its, index) == splice(its, index, 1)

(* A slip: splice(index) without the count removes everything from index on. *)
removeItem_noCount(its, index) ==
    IF index >= 0 /\ index < Len(its) THEN splice(its, index, Len(its)) ELSE its

(* if (index >= 0 && index < this.items.length) this.items.splice(index, 1) *)
removeItem(its, index) ==
    IF index >= 0 /\ index < Len(its) THEN splice(its, index, 1) ELSE its

(* return this.items: the array object itself, not a copy of it. *)
getAllItems == "items"

AddItem ==
    /\ Len(items) < MaxItems
    /\ \E item \in StoreItems :
          /\ items' = addItem(items, item)
          /\ lastOp' = [op |-> "addItem", item |-> item]
    /\ UNCHANGED callerRef
    /\ UNCHANGED userVars
    /\ UNCHANGED dogVars

GetItem ==
    /\ \E index \in Indexes :
          lastOp' = [op |-> "getItem", index |-> index, result |-> getItem(items, index)]
    /\ UNCHANGED <<items, callerRef>>
    /\ UNCHANGED userVars
    /\ UNCHANGED dogVars

RemoveItem ==
    /\ \E index \in Indexes :
          /\ items' = removeItem(items, index)
          /\ lastOp' = [op |-> "removeItem", index |-> index]
    /\ UNCHANGED callerRef
    /\ UNCHANGED userVars
    /\ UNCHANGED dogVars

GetAllItems ==
    /\ callerRef' = getAllItems
    /\ lastOp' = [op |-> "getAllItems", result |-> items]
    /\ UNCHANGED items
    /\ UNCHANGED userVars
    /\ UNCHANGED dogVars

(* The caller pushes onto the array it got from getAllItems. *)
CallerPush ==
    /\ callerRef = "items"
    /\ Len(items) < MaxItems
    /\ \E item \in StoreItems :
          /\ items' = Append(items, item)
          /\ lastOp' = [op |-> "caller.push", item |-> item]
    /\ UNCHANGED callerRef
    /\ UNCHANGED userVars
    /\ UNCHANGED dogVars

(* The caller pops from the array it got from getAllItems. *)
CallerPop ==
    /\ callerRef = "items"
    /\ items' = SubSeq(items, 1, Len(items) - 1)
    /\ lastOp' = [op |-> "caller.pop"]
    /\ UNCHANGED callerRef
    /\ UNCHANGED userVars
    /\ UNCHANGED dogVars

NextStore == AddItem \/ GetItem \/ RemoveItem \/ GetAllItems \/ CallerPush \/ CallerPop

SpecStore == Init /\ [][NextStore]_vars

(***************************************************************************)
(* Dog: static attribute and static method                                 *)
(***************************************************************************)

(* The names given to new Dog(...): "Buddy", "Max". *)
DogNames == {"Buddy", "Max"}

(* constructor: Dog.instanceCount++ *)
constructorCount(count) == count + 1

(* A slip: the guard dropped, Dog.instanceCount-- on every call. *)
decreaseInstanceCount_noGuard(count) == count - 1

(* if (Dog.instanceCount > 0) Dog.instanceCount-- *)
decreaseInstanceCount(count) == IF count > 0 THEN count - 1 ELSE count

(* new Dog(name) *)
NewDog ==
    /\ Len(dogs) < MaxDogs
    /\ \E name \in DogNames : dogs' = Append(dogs, name)
    /\ instanceCount' = constructorCount(instanceCount)
    /\ dogOp' = "new"
    /\ UNCHANGED userVars
    /\ UNCHANGED storeVars

(* Dog.decreaseInstanceCount() *)
DecreaseInstanceCount ==
    /\ instanceCount' = decreaseInstanceCount(instanceCount)
    /\ dogOp' = "decreaseInstanceCount"
    /\ UNCHANGED dogs
    /\ UNCHANGED userVars
    /\ UNCHANGED storeVars

NextDog == NewDog \/ DecreaseInstanceCount

SpecDog == Init /\ [][NextDog]_vars

(***************************************************************************)
(* Properties                                                              *)
(***************************************************************************)

IsCreate(i) == log[i].handler = "createUser"
IsGetAll(i) == log[i].handler = "getAllUsers"
IsGetOne(i) == log[i].handler = "getUserById"

(* The entity and the id a create exchange returned. *)
CreatedUser(i) == log[i].body.user
CreatedId(i) == log[i].body.user.id

(* The entities returned by the create exchanges among the first n, in order. *)
RECURSIVE CreatedBefore(_)
CreatedBefore(n) ==
    IF n = 0 THEN <<>>
    ELSE IF IsCreate(n) THEN Append(CreatedBefore(n - 1), CreatedUser(n))
    ELSE CreatedBefore(n - 1)

(* The ids the store has handed out before exchange j: the seed ids and the *)
(* ids returned by earlier creates.                                         *)
AssignedBefore(j) ==
    {SeedUsers[k].id : k \in DOMAIN SeedUsers}
    \cup {CreatedId(i) : i \in {i \in 1..(j - 1) : IsCreate(i)}}

(* The step just taken completed a createUser exchange. *)
CreateStep == Len(log') = Len(log) + 1 /\ log'[Len(log')].handler = "createUser"

(* C1: the ids returned by the create calls of one store contain no duplicates. *)
C1_UniqueCreatedIds ==
    \A i, j \in DOMAIN log :
        (i # j /\ IsCreate(i) /\ IsCreate(j)) => CreatedId(i) # CreatedId(j)

(* C2: of two create calls the one that completes first returns the smaller id, *)
(* and every id returned is greater than every id assigned before it.           *)
C2_MonotonicCreatedIds ==
    \A j \in DOMAIN log :
        IsCreate(j) => \A a \in AssignedBefore(j) : a < CreatedId(j)

(* C3: a createUser that responds 201 leaves the collection one element longer   *)
(* with the returned entity last, and every later getAllUsers response has it.   *)
C3_CreateAppends ==
    [][/\ CreateStep =>
            /\ Len(users') = Len(users) + 1
            /\ users'[Len(users')] = log'[Len(log')].body.user
       /\ (Len(log') = Len(log) + 1 /\ log'[Len(log')].handler = "getAllUsers") =>
            \A i \in DOMAIN log :
                IsCreate(i) =>
                    \E k \in DOMAIN log'[Len(log')].body :
                        log'[Len(log')].body[k] = CreatedUser(i)]_vars

(* C4: a getUserById for the id of an entity returned by an earlier create *)
(* responds 200 with that entity.                                          *)
C4_LookupCreated ==
    \A i, j \in DOMAIN log :
        (i < j /\ IsCreate(i) /\ IsGetOne(j)
           /\ StrictEquals(CreatedId(i), parseInt(log[j].req.params.id)))
        => (log[j].status = 200 /\ log[j].body = CreatedUser(i))

(* C5: a getUserById for an integer id the store never assigned responds 404 *)
(* with the body {message: "User not found"}.                                *)
C5_LookupUnassigned ==
    \A j \in DOMAIN log :
        (IsGetOne(j)
           /\ ~parseInt(log[j].req.params.id).isNaN
           /\ parseInt(log[j].req.params.id).val \notin AssignedBefore(j))
        => (log[j].status = 404 /\ log[j].body = [message |-> "User not found"])

(* C5 witness: GET /api/users/999 was answered 404. *)
C5_Witness ==
    \E j \in DOMAIN log :
        /\ IsGetOne(j)
        /\ log[j].req.params.id = <<"9", "9", "9">>
        /\ parseInt(log[j].req.params.id).val = 999
        /\ 999 \notin AssignedBefore(j)
        /\ log[j].status = 404

(* C6: whatever the request body holds, the entity createUser returns has   *)
(* the id the store assigned and no key beyond id, name, email and age.     *)
C6_BodyCannotSetId ==
    [][CreateStep =>
          /\ log'[Len(log')].body.user.id = Len(users) + 1
          /\ DOMAIN log'[Len(log')].body.user \subseteq UserDataKeys]_vars

(* C7: getAllUsers returns the seed entities in seed order followed by the *)
(* created entities in creation order.                                     *)
C7_OrderPreserved ==
    \A j \in DOMAIN log :
        IsGetAll(j) => log[j].body = SeedUsers \o CreatedBefore(j - 1)

(* C8: createUser responds 201 with the success message and an entity that   *)
(* has the request's name, email and age and the newly assigned id, which is *)
(* 4 for the first create on the seed data.                                  *)
C8_CreateResponse ==
    [][CreateStep =>
          LET ex == log'[Len(log')] IN
          /\ ex.status = 201
          /\ ex.body.message = "User created successfully"
          /\ ex.body.user.name = ex.req.body.name
          /\ ex.body.user.email = ex.req.body.email
          /\ ex.body.user.age = ex.req.body.age
          /\ ex.body.user.id = Len(users) + 1
          /\ (users = SeedUsers => ex.body.user.id = 4)]_vars

(* C9: from the seed data, the first two creates return the ids 4 and 5. *)
C9_FourThenFive ==
    \A i, j \in DOMAIN log :
        (/\ i < j /\ IsCreate(i) /\ IsCreate(j)
         /\ \A k \in 1..(j - 1) : IsCreate(k) => k = i)
        => (CreatedId(i) = 4 /\ CreatedId(j) = 5)

(* C10: two create requests that were in flight at the same time never get *)
(* the same id, whichever handler the event loop runs first.               *)
C10_ConcurrentCreatesDiffer ==
    \A i, j \in DOMAIN log :
        (i < j /\ IsCreate(i) /\ IsCreate(j) /\ log[j].rid \in log[i].overlap)
        => CreatedId(i) # CreatedId(j)

(* The step just taken completed a getAllUsers / getUserById exchange. *)
GetAllStep == Len(log') = Len(log) + 1 /\ log'[Len(log')].handler = "getAllUsers"
GetOneStep == Len(log') = Len(log) + 1 /\ log'[Len(log')].handler = "getUserById"

(* The id a getUserById exchange asked for, as the handler parses it. *)
RequestedId(i) == parseInt(log[i].req.params.id)

(* C11: no two entities of the backing collection have the same id, so a *)
(* lookup matches at most one entity.                                    *)
C11_StoredIdsUnique ==
    /\ \A i, j \in DOMAIN users : i # j => users[i].id # users[j].id
    /\ \A p \in IdParams :
          Cardinality({k \in DOMAIN users : StrictEquals(users[k].id, parseInt(p))}) <= 1

(* C11 witness: creates were handled, one of them twice with the same body, *)
(* and a lookup was answered 200.                                           *)
C11_Witness ==
    /\ \E i, j \in DOMAIN log :
          i < j /\ IsCreate(i) /\ IsCreate(j) /\ log[i].req.body = log[j].req.body
    /\ \E j \in DOMAIN log : IsGetOne(j) /\ log[j].status = 200

(* C12: when an entity with the requested id is in the collection, getUserById *)
(* responds 200 with exactly that entity; id 2 on the seed data yields Bob.    *)
C12_GetOneSuccess ==
    [][GetOneStep =>
          LET ex == log'[Len(log')] IN
          /\ \A k \in DOMAIN users :
                (~parseInt(ex.req.params.id).isNaN
                   /\ users[k].id = parseInt(ex.req.params.id).val)
                => (ex.status = 200 /\ ex.body = users[k])
          /\ (users = SeedUsers /\ ex.req.params.id = <<"2">>)
                => ex.body = [id |-> 2, name |-> "Bob",
                              email |-> "bob@example.com", age |-> 34]]_vars

(* C12 witness: GET /api/users/2 was answered 200 with Bob's record. *)
C12_Witness ==
    \E j \in DOMAIN log :
        /\ IsGetOne(j)
        /\ log[j].req.params.id = <<"2">>
        /\ log[j].status = 200
        /\ log[j].body.name = "Bob"

(* C13: getAllUsers responds 200 with the full ordered collection; with no *)
(* create before it the body is the three seed entities in seed order.     *)
C13_ListAll ==
    [][GetAllStep =>
          LET ex == log'[Len(log')] IN
          /\ ex.status = 200
          /\ ex.body = users
          /\ (\A i \in DOMAIN log : ~IsCreate(i)) => ex.body = SeedUsers]_vars

(* C13 witness: a listing with no create before it returned Alice, Bob, Charlie. *)
C13_Witness ==
    \E j \in DOMAIN log :
        /\ IsGetAll(j)
        /\ \A i \in 1..(j - 1) : ~IsCreate(i)
        /\ log[j].status = 200
        /\ Len(log[j].body) = 3
        /\ log[j].body[1].name = "Alice"
        /\ log[j].body[2].name = "Bob"
        /\ log[j].body[3].name = "Charlie"

(* C14: two getAllUsers calls, or two getUserById calls for the same id, with *)
(* no create between them, have the same status and body.                     *)
C14_IdempotentReads ==
    \A i, j \in DOMAIN log :
        (/\ i < j
         /\ \A k \in (i + 1)..(j - 1) : ~IsCreate(k)
         /\ \/ IsGetAll(i) /\ IsGetAll(j)
            \/ IsGetOne(i) /\ IsGetOne(j) /\ RequestedId(i) = RequestedId(j))
        => (log[i].status = log[j].status /\ log[i].body = log[j].body)

(* C14 witness: the same existing id was looked up twice in a row. *)
C14_Witness ==
    \E i, j \in DOMAIN log :
        /\ j = i + 1
        /\ IsGetOne(i) /\ IsGetOne(j)
        /\ RequestedId(i) = RequestedId(j)
        /\ log[i].status = 200

(* C15: getAllUsers and getUserById leave the backing collection unchanged; *)
(* only a create can change it.                                             *)
C15_ReadsNonDestructive ==
    [][/\ (GetAllStep \/ GetOneStep) => users' = users
       /\ users' # users => CreateStep]_vars

(* C15 witness: a listing, a found lookup and a not-found lookup were all *)
(* answered and the collection is what it was.                            *)
C15_Witness ==
    /\ \E j \in DOMAIN log : IsGetAll(j)
    /\ \E j \in DOMAIN log : IsGetOne(j) /\ log[j].status = 200
    /\ \E j \in DOMAIN log : IsGetOne(j) /\ log[j].status = 404
    /\ users = SeedUsers

(* C16: every invocation of a handler sends exactly one response. *)
C16_AnsweredOnce ==
    \A i \in DOMAIN log : log[i].sends = 1

(* C16 witness: each of the three handlers has run, getUserById on its *)
(* not-found path.                                                     *)
C16_Witness ==
    /\ \E j \in DOMAIN log : IsGetAll(j) /\ log[j].sends = 1
    /\ \E j \in DOMAIN log : IsCreate(j) /\ log[j].sends = 1
    /\ \E j \in DOMAIN log : IsGetOne(j) /\ log[j].status = 404 /\ log[j].sends = 1

(* C17: an entity of the backing collection keeps its id and fields in every *)
(* later state.                                                              *)
C17_EntitiesImmutable ==
    [][\A k \in DOMAIN users : k \in DOMAIN users' /\ users'[k] = users[k]]_vars

(* C17 witness: after a create, a listing and a lookup, Alice, Bob and *)
(* Charlie are as they were seeded.                                    *)
C17_Witness ==
    /\ \E j \in DOMAIN log : IsCreate(j)
    /\ \E j \in DOMAIN log : IsGetAll(j)
    /\ \E j \in DOMAIN log : IsGetOne(j)
    /\ \A k \in DOMAIN SeedUsers : users[k] = SeedUsers[k]

(* C18: GET /api/users is handled by getAllUsers, GET /api/users/{id} by   *)
(* getUserById with that id, POST /api/users by createUser, and by nothing *)
(* else.                                                                   *)
C18_Dispatch ==
    \A i \in DOMAIN log :
        LET r == log[i].req IN
        /\ (r.method = "GET" /\ r.path = <<"api", "users">>) <=> IsGetAll(i)
        /\ (r.method = "GET" /\ Len(r.path) = 3) <=> IsGetOne(i)
        /\ IsGetOne(i) => r.params.id = r.path[3]
        /\ (r.method = "POST" /\ r.path = <<"api", "users">>) <=> IsCreate(i)

(* C18 witness: a GET of the collection, a GET of one id and a POST were *)
(* each handled.                                                         *)
C18_Witness ==
    /\ \E j \in DOMAIN log : IsGetAll(j) /\ log[j].req.method = "GET"
    /\ \E j \in DOMAIN log : IsGetOne(j) /\ log[j].req.params.id = <<"7">>
    /\ \E j \in DOMAIN log : IsCreate(j) /\ log[j].req.method = "POST"

(* C19: the contents of a DataStore change only through its addItem and   *)
(* removeItem; holding the array returned by getAllItems gives a caller   *)
(* no way to change what the store returns later.                         *)
C19_StoreOwnsItems ==
    [][items' # items => lastOp'.op \in {"addItem", "removeItem"}]_vars

(* C20: removeItem(index) with 0 <= index < length removes exactly the      *)
(* element at index: the length drops by one, the elements before index are *)
(* unchanged and those after it move down by one.                           *)
C20_RemoveItemValid ==
    [][(lastOp'.op = "removeItem"
          /\ lastOp'.index >= 0 /\ lastOp'.index < Len(items))
       => /\ Len(items') = Len(items) - 1
          /\ \A k \in 1..lastOp'.index : items'[k] = items[k]
          /\ \A k \in (lastOp'.index + 1)..Len(items') : items'[k] = items[k + 1]]_vars

(* C20 witness: removeItem(1) has just taken the middle one of three items, *)
(* leaving two.                                                             *)
C20_Witness ==
    /\ lastOp.op = "removeItem"
    /\ lastOp.index = 1
    /\ Len(items) = 2
    /\ items[1] # items[2]

(* The first sequence can be obtained from the second by deleting elements. *)
RECURSIVE IsSubsequence(_, _)
IsSubsequence(a, b) ==
    IF a = <<>> THEN TRUE
    ELSE IF b = <<>> THEN FALSE
    ELSE IF Head(a) = Head(b) THEN IsSubsequence(Tail(a), Tail(b))
    ELSE IsSubsequence(a, Tail(b))

(* C21: removeItem(index) with index < 0 or index >= length, also on an *)
(* empty store, leaves the stored items unchanged.                      *)
C21_RemoveItemInvalid ==
    [][(lastOp'.op = "removeItem"
          /\ (lastOp'.index < 0 \/ lastOp'.index >= Len(items)))
       => items' = items]_vars

(* C21 witness: removeItem(-1) has just run on a store of two items, which *)
(* are both still there.                                                   *)
C21_Witness ==
    /\ lastOp.op = "removeItem"
    /\ lastOp.index = -1
    /\ Len(items) = 2

(* C22: addItem places the new item last and leaves the others in place,  *)
(* removeItem keeps the relative order of the items that survive, and     *)
(* getAllItems returns the items in that order.                           *)
C22_InsertionOrder ==
    [][/\ lastOp'.op = "addItem" =>
            /\ Len(items') = Len(items) + 1
            /\ items'[Len(items')] = lastOp'.item
            /\ \A k \in DOMAIN items : items'[k] = items[k]
       /\ lastOp'.op = "removeItem" => IsSubsequence(items', items)
       /\ lastOp'.op = "getAllItems" => lastOp'.result = items]_vars

(* C22 witness: addItem has just put a third item after two different ones. *)
C22_Witness ==
    /\ lastOp.op = "addItem"
    /\ Len(items) = 3
    /\ items[3] = lastOp.item
    /\ items[1] # items[3]
    /\ items[2] # items[3]

(* C23: getItem(index) returns the item at that position when             *)
(* 0 <= index < length and undefined for any other index, and leaves the  *)
(* store as it was.                                                       *)
C23_GetItem ==
    [][lastOp'.op = "getItem" =>
          /\ items' = items
          /\ (lastOp'.index >= 0 /\ lastOp'.index < Len(items)) =>
                (lastOp'.result.defined /\ lastOp'.result.item = items[lastOp'.index + 1])
          /\ (lastOp'.index < 0 \/ lastOp'.index >= Len(items)) =>
                ~lastOp'.result.defined]_vars

(* C23 witness: getItem(2) has just returned the last of three items. *)
C23_Witness ==
    /\ lastOp.op = "getItem"
    /\ lastOp.index = 2
    /\ Len(items) = 3
    /\ lastOp.result.defined
    /\ lastOp.result.item = items[3]

(* C24: for a request body without an id key, the id createUser returns is *)
(* the current length of users plus one.                                   *)
C24_IdIsLengthPlusOne ==
    [][(CreateStep /\ "id" \notin DOMAIN log'[Len(log')].req.body)
       => log'[Len(log')].body.user.id = Len(users) + 1]_vars

(* C24 witness: a create with Dave's body, which has no id key, returned id 4. *)
C24_Witness ==
    \E j \in DOMAIN log :
        /\ IsCreate(j)
        /\ log[j].req.body = Dave
        /\ CreatedId(j) = 4

(* The :id path segments that name the seed entities. *)
SeedIdParams == << <<"1">>, <<"2">>, <<"3">> >>

(* C25: in every reachable state, GET /api/users/1, /2 and /3 respond 200 *)
(* with the Alice, Bob and Charlie records.                               *)
C25_SeedsNeverLost ==
    /\ \A k \in DOMAIN SeedUsers :
          LET res == getUserById(Request("GET", <<"api", "users", SeedIdParams[k]>>, EmptyBody),
                                 users)
          IN  res.status = 200 /\ res.body = SeedUsers[k]
    /\ \A j \in DOMAIN log :
          (IsGetOne(j) /\ log[j].req.params.id = <<"2">>)
          => (log[j].status = 200 /\ log[j].body = SeedUsers[2])

(* C25 witness: after a create and a listing, GET /api/users/2 was answered *)
(* with Bob's record.                                                       *)
C25_Witness ==
    \E i, j, k \in DOMAIN log :
        /\ i < k /\ j < k
        /\ IsCreate(i)
        /\ IsGetAll(j)
        /\ IsGetOne(k)
        /\ log[k].req.params.id = <<"2">>
        /\ log[k].body = SeedUsers[2]

(* C26: for an id path parameter that parseInt turns into NaN, getUserById *)
(* responds 404 with the message "User not found" and leaves the           *)
(* collection unchanged.                                                   *)
C26_NaNIsNotFound ==
    [][(GetOneStep /\ parseInt(log'[Len(log')].req.params.id).isNaN)
       => /\ log'[Len(log')].status = 404
          /\ log'[Len(log')].body = [message |-> "User not found"]
          /\ log'[Len(log')].sends = 1
          /\ users' = users]_vars

(* C26 witness: GET /api/users/abc was answered 404. *)
C26_Witness ==
    \E j \in DOMAIN log :
        /\ IsGetOne(j)
        /\ log[j].req.params.id = <<"a", "b", "c">>
        /\ RequestedId(j).isNaN
        /\ log[j].status = 404

(* C27: Dog.instanceCount is never negative; each construction raises it by *)
(* one, and decreaseInstanceCount lowers it by one when it is positive and  *)
(* leaves it at 0 otherwise.                                                *)
C27_InstanceCount ==
    /\ [](instanceCount >= 0)
    /\ [][/\ dogOp' = "new" => instanceCount' = instanceCount + 1
          /\ (dogOp' = "decreaseInstanceCount" /\ instanceCount > 0)
                => instanceCount' = instanceCount - 1
          /\ (dogOp' = "decreaseInstanceCount" /\ instanceCount <= 0)
                => instanceCount' = 0]_vars

(* C27 witness: Buddy and Max were constructed and one decrease brought the *)
(* count from 2 to 1.                                                       *)
C27_Witness ==
    /\ dogs = <<"Buddy", "Max">>
    /\ dogOp = "decreaseInstanceCount"
    /\ instanceCount = 1

====
